---- MODULE Spec2Model ----
(***************************************************************************)
(* The time-tracking state machine of the dretec online timer              *)
(* (TimerComponent, src/README.md) together with the session log           *)
(* (SessionProvider, src/contexts/SessionContext.tsx), and the earlier,    *)
(* tick-counting Timer of src/components/timer.tsx, whose definitions      *)
(* carry the prefix Timer_.                                                *)
(*                                                                         *)
(* Wall-clock time is kept up to translation: the present instant is       *)
(* always Now, and every stored instant (startTime, the deadline of the    *)
(* flash timeout, the instants inside log entries) is kept relative to it. *)
(* Letting d milliseconds pass moves every stored instant d milliseconds   *)
(* into the past.  The code only ever subtracts instants or compares them  *)
(* for equality, so this loses nothing.                                    *)
(*                                                                         *)
(* A React state update and the effects it triggers are one step.  In      *)
(* TimerComponent every value an effect closes over is among its           *)
(* dependencies, so the closure of a scheduled callback always agrees with *)
(* the committed state; in Timer the state the click handlers closed over  *)
(* is kept apart (sceneState).                                             *)
(***************************************************************************)
EXTENDS Integers, Sequences, FiniteSets, TLC

(* ---------------- bounds of the model ---------------- *)

\* longest stretch of wall-clock time, in ms, any stored instant may lie in the past
\* beyond the long step
MaxAge == 1000

\* largest countdown length, in seconds, the H/M/S buttons are pressed up to
MaxTimerSet == 2

\* most press-and-hold intervals alive at once, and most mouse buttons held at once
MaxIntervals == 2

\* largest time the tick-counting stopwatch is followed to, one tick at a time
MaxTicks == 3

\* most entries the session log holds
MaxSessions == 2

\* longest time, in ms, an entry stays in the session log
MaxEntryAge == 500

(* ---------------- program constants ---------------- *)

TIMER_MAX == 99 * 3600 + 59 * 60 + 59
STOPWATCH_HMS_MAX == 99 * 3600 + 59 * 60 + 59
STOPWATCH_MS_MAX == 59 * 60 * 100 + 99
FLASH_TIMEOUT == 3000

(* ---------------- the clock ---------------- *)

\* a Date | null is a sequence of at most one instant (ms)
Null == << >>
Date(t) == << t >>
GetTime(d) == d[1]

\* new Date() / Date.now(): the present instant
Now == 0

\* clock steps (ms): half a second, and one second more than the 99:59:59 range
HalfStep == 1000 \div 2
LongStep == (TIMER_MAX + 1) * 1000

(* ---------------- TimerState ---------------- *)

InitialState ==
    [mode |-> "clock", displayFormat |-> "hms", running |-> FALSE, paused |-> FALSE,
     time |-> 0, timerSet |-> 0, flash |-> FALSE, startTime |-> Null, pausedAccum |-> 0]

getMaxTime(s) ==
    IF s.mode = "timer" THEN TIMER_MAX
    ELSE IF s.displayFormat = "hms" THEN STOPWATCH_HMS_MAX ELSE STOPWATCH_MS_MAX

\* milliseconds per unit of `time` in the stopwatch
UnitMs(format) == IF format = "hms" THEN 1000 ELSE 10

\* a format toggle that converts the stored time between seconds and centiseconds
handleFormatToggle_converts(prev) ==
    IF ~prev.running /\ ~prev.paused
    THEN IF prev.displayFormat = "hms"
         THEN [prev EXCEPT !.displayFormat = "ms", !.time = prev.time * 100]
         ELSE [prev EXCEPT !.displayFormat = "hms", !.time = prev.time \div 100]
    ELSE prev

handleFormatToggle(prev) ==
    IF ~prev.running /\ ~prev.paused
    THEN [prev EXCEPT !.displayFormat = IF prev.displayFormat = "hms" THEN "ms" ELSE "hms"]
    ELSE prev

\* handleStartStop whose pause branches forget to clear `running`
handleStartStop_pauseKeepsRunning(prev) ==
    IF prev.mode = "clock"
    THEN [prev EXCEPT !.mode = "stopwatch", !.running = TRUE, !.paused = FALSE,
                      !.time = 0, !.pausedAccum = 0, !.startTime = Date(Now)]
    ELSE IF prev.paused
    THEN [prev EXCEPT !.running = TRUE, !.paused = FALSE, !.startTime = Date(Now)]
    ELSE IF prev.running
    THEN [prev EXCEPT !.paused = TRUE, !.startTime = Null]
    ELSE IF prev.mode = "timer" /\ prev.timerSet = 0 THEN prev
    ELSE [prev EXCEPT !.running = TRUE, !.paused = FALSE, !.startTime = Date(Now)]

\* handleStartStop whose clock branch keeps the banked time
handleStartStop_clockKeepsAccum(prev) ==
    IF prev.mode = "clock"
    THEN [prev EXCEPT !.mode = "stopwatch", !.running = TRUE, !.paused = FALSE,
                      !.time = 0, !.startTime = Date(Now)]
    ELSE IF prev.mode = "timer"
    THEN IF prev.timerSet = 0 THEN prev
         ELSE IF prev.paused
         THEN [prev EXCEPT !.running = TRUE, !.paused = FALSE, !.startTime = Date(Now)]
         ELSE IF prev.running
         THEN LET elapsed == IF prev.startTime # Null
                             THEN (Now - GetTime(prev.startTime)) \div 1000 ELSE 0
                  rest == prev.timerSet - (prev.pausedAccum + elapsed)
              IN [prev EXCEPT !.running = FALSE, !.paused = TRUE,
                              !.pausedAccum = prev.pausedAccum + elapsed,
                              !.startTime = Null,
                              !.time = IF rest > 0 THEN rest ELSE 0]
         ELSE [prev EXCEPT !.running = TRUE, !.paused = FALSE, !.startTime = Date(Now),
                           !.pausedAccum = 0, !.time = prev.timerSet]
    ELSE IF prev.paused
         THEN [prev EXCEPT !.running = TRUE, !.paused = FALSE, !.startTime = Date(Now)]
         ELSE IF prev.running
         THEN LET elapsed == IF prev.startTime # Null
                             THEN (Now - GetTime(prev.startTime)) \div UnitMs(prev.displayFormat)
                             ELSE 0
              IN [prev EXCEPT !.running = FALSE, !.paused = TRUE,
                              !.pausedAccum = prev.pausedAccum + elapsed,
                              !.startTime = Null]
         ELSE [prev EXCEPT !.running = TRUE, !.paused = FALSE, !.startTime = Date(Now)]

\* handleStartStop without the check for an empty countdown
handleStartStop_startsEmptyTimer(prev) ==
    IF prev.mode = "clock"
    THEN [prev EXCEPT !.mode = "stopwatch", !.running = TRUE, !.paused = FALSE,
                      !.time = 0, !.pausedAccum = 0, !.startTime = Date(Now)]
    ELSE IF prev.mode = "timer"
    THEN IF prev.paused
         THEN [prev EXCEPT !.running = TRUE, !.paused = FALSE, !.startTime = Date(Now)]
         ELSE IF prev.running
         THEN LET elapsed == IF prev.startTime # Null
                             THEN (Now - GetTime(prev.startTime)) \div 1000 ELSE 0
                  rest == prev.timerSet - (prev.pausedAccum + elapsed)
              IN [prev EXCEPT !.running = FALSE, !.paused = TRUE,
                              !.pausedAccum = prev.pausedAccum + elapsed,
                              !.startTime = Null,
                              !.time = IF rest > 0 THEN rest ELSE 0]
         ELSE [prev EXCEPT !.running = TRUE, !.paused = FALSE, !.startTime = Date(Now),
                           !.pausedAccum = 0, !.time = prev.timerSet]
    ELSE IF prev.paused
         THEN [prev EXCEPT !.running = TRUE, !.paused = FALSE, !.startTime = Date(Now)]
         ELSE IF prev.running
         THEN LET elapsed == IF prev.startTime # Null
                             THEN (Now - GetTime(prev.startTime)) \div UnitMs(prev.displayFormat)
                             ELSE 0
              IN [prev EXCEPT !.running = FALSE, !.paused = TRUE,
                              !.pausedAccum = prev.pausedAccum + elapsed,
                              !.startTime = Null]
         ELSE [prev EXCEPT !.running = TRUE, !.paused = FALSE, !.startTime = Date(Now)]

handleStartStop(prev) ==
    IF prev.mode = "clock"
    THEN [prev EXCEPT !.mode = "stopwatch", !.running = TRUE, !.paused = FALSE,
                      !.time = 0, !.pausedAccum = 0, !.startTime = Date(Now)]
    ELSE IF prev.mode = "timer"
    THEN IF prev.timerSet = 0 THEN prev
         ELSE IF prev.paused
         THEN [prev EXCEPT !.running = TRUE, !.paused = FALSE, !.startTime = Date(Now)]
         ELSE IF prev.running
         THEN LET elapsed == IF prev.startTime # Null
                             THEN (Now - GetTime(prev.startTime)) \div 1000 ELSE 0
                  rest == prev.timerSet - (prev.pausedAccum + elapsed)
              IN [prev EXCEPT !.running = FALSE, !.paused = TRUE,
                              !.pausedAccum = prev.pausedAccum + elapsed,
                              !.startTime = Null,
                              !.time = IF rest > 0 THEN rest ELSE 0]
         ELSE [prev EXCEPT !.running = TRUE, !.paused = FALSE, !.startTime = Date(Now),
                           !.pausedAccum = 0, !.time = prev.timerSet]
    ELSE IF prev.paused
         THEN [prev EXCEPT !.running = TRUE, !.paused = FALSE, !.startTime = Date(Now)]
         ELSE IF prev.running
         THEN LET elapsed == IF prev.startTime # Null
                             THEN (Now - GetTime(prev.startTime)) \div UnitMs(prev.displayFormat)
                             ELSE 0
              IN [prev EXCEPT !.running = FALSE, !.paused = TRUE,
                              !.pausedAccum = prev.pausedAccum + elapsed,
                              !.startTime = Null]
         ELSE [prev EXCEPT !.running = TRUE, !.paused = FALSE, !.startTime = Date(Now)]

\* a reset that keeps the configured countdown
handleReset_keepsTimerSet(prev) ==
    [prev EXCEPT !.mode = "clock", !.running = FALSE, !.paused = FALSE, !.time = 0,
                 !.startTime = Null, !.pausedAccum = 0]

handleReset(prev) ==
    [prev EXCEPT !.mode = "clock", !.running = FALSE, !.paused = FALSE, !.time = 0,
                 !.timerSet = 0, !.startTime = Null, !.pausedAccum = 0]

\* a mode button that leaves a paused engine paused
modeButton_keepsPaused(prev) ==
    [prev EXCEPT !.mode = IF prev.mode = "timer" THEN "stopwatch" ELSE "timer",
                 !.running = FALSE, !.time = 0, !.startTime = Null]

\* a mode button that forgets to clear startTime
modeButton_keepsStartTime(prev) ==
    [prev EXCEPT !.mode = IF prev.mode = "timer" THEN "stopwatch" ELSE "timer",
                 !.running = FALSE, !.paused = FALSE, !.time = 0]

\* the mode button of handleClick
modeButton(prev) ==
    [prev EXCEPT !.mode = IF prev.mode = "timer" THEN "stopwatch" ELSE "timer",
                 !.running = FALSE, !.paused = FALSE, !.time = 0, !.startTime = Null]

\* an increment that clamps to the maximum where the code rejects
incrementField_clampsToMax(prev, increment) ==
    IF ~prev.running /\ prev.mode = "timer"
    THEN LET newVal == prev.timerSet + increment
         IN [prev EXCEPT !.timerSet = IF newVal <= TIMER_MAX THEN newVal ELSE TIMER_MAX]
    ELSE prev

\* the updater of the H, M and S buttons of handleClick and of the
\* press-and-hold interval of handleMouseDown (increment 3600, 60, 1)
incrementField(prev, increment) ==
    IF ~prev.running /\ prev.mode = "timer"
    THEN LET maxTime == IF prev.mode = "timer" THEN TIMER_MAX
                        ELSE IF prev.displayFormat = "hms" THEN STOPWATCH_HMS_MAX
                        ELSE STOPWATCH_MS_MAX
             newVal == prev.timerSet + increment
         IN [prev EXCEPT !.timerSet = IF newVal <= maxTime THEN newVal ELSE prev.timerSet]
    ELSE prev

\* formatTimeForDisplay in Timer and Stopwatch mode: the numeric fields of the
\* string, in order (in Clock mode it renders the wall clock, not `t`)
formatTimeForDisplay(s, t) ==
    LET time == IF t > 0 THEN t ELSE 0
    IN IF s.mode = "timer" \/ (s.mode = "stopwatch" /\ s.displayFormat = "hms")
       THEN << time \div 3600, (time % 3600) \div 60, time % 60 >>
       ELSE LET cs == time % 100
                totalSeconds == time \div 100
            IN << totalSeconds \div 60, totalSeconds % 60, cs >>

(* ---------------- session log ---------------- *)

\* formatTimeForLog: the numeric fields of the string, in order, joined by ":"
\* (padStart(2, '0') does not change the number a field denotes)
formatTimeForLog(time, format) ==
    IF format = "hms"
    THEN << time \div 3600, (time % 3600) \div 60, time % 60 >>
    ELSE << time \div 60, time >>

\* the LogEntry built by handleLog; Date.now().toString() is one-to-one on
\* instants, so the id is kept as the instant
logEntry(prev) ==
    [id |-> Now, startTime |-> GetTime(prev.startTime), duration |-> prev.time,
     formattedDuration |-> formatTimeForLog(prev.time, prev.displayFormat)]

\* the state handleLog's updater returns in stopwatch mode
handleLog(prev) ==
    [prev EXCEPT !.running = FALSE, !.paused = FALSE, !.time = 0, !.startTime = Null]

\* an addSession that appends at the end
addSession_appends(prev, session) == prev \o << session >>

\* an addSession that replaces the list instead of prepending to it
addSession_replaces(prev, session) == << session >>

addSession(prev, session) == << session >> \o prev

\* a removeSession that splices at the index of the id, found or not
removeSession_splicesIndex(prev, id) ==
    IF \E i \in 1..Len(prev) : prev[i].id = id
    THEN SelectSeq(prev, LAMBDA s : s.id # id)
    ELSE SubSeq(prev, 1, Len(prev) - 1)

removeSession(prev, id) == SelectSeq(prev, LAMBDA s : s.id # id)

clearSessions == << >>

(* ---------------- views of the session log ---------------- *)

\* String.prototype.includes on a formattedDuration: the strings formatTimeForLog
\* builds consist of digits and ":"
includes(formattedDuration, char) == char = ":"

RECURSIVE reduce(_, _)
\* Array.prototype.reduce by addition, over the numbers the callback adds
reduce(values, acc) ==
    IF values = << >> THEN acc ELSE reduce(Tail(values), acc + Head(values))

\* durationInSeconds of calculateStats in the statistics view
durationInSeconds(session) ==
    IF /\ includes(session.formattedDuration, "M")
       /\ includes(session.formattedDuration, "S")
       /\ ~includes(session.formattedDuration, "H")
    THEN session.duration \div 100
    ELSE session.duration

\* totalTime of calculateStats
totalTime(log) == reduce([i \in 1..Len(log) |-> durationInSeconds(log[i])], 0)

\* the Total of the history view
historyTotal(log) == reduce([i \in 1..Len(log) |-> log[i].duration], 0)

(* ---------------- animation-frame updates ---------------- *)

\* update() of the stopwatch effect
stopwatchUpdate(prev) ==
    LET elapsed == (Now - GetTime(prev.startTime)) \div UnitMs(prev.displayFormat)
    IN [prev EXCEPT !.time = prev.pausedAccum + elapsed]

\* a countdown that rounds the elapsed seconds of the run segment the wrong way
timerRemaining_lateByOne(prev) ==
    LET elapsed == (Now - GetTime(prev.startTime) - 1) \div 1000
        rest == prev.timerSet - (prev.pausedAccum + elapsed)
    IN IF rest > 0 THEN rest ELSE 0

\* a countdown that counts a started second of the run segment as a full one
timerRemaining_earlyByOne(prev) ==
    LET elapsed == (Now - GetTime(prev.startTime) + 999) \div 1000
        rest == prev.timerSet - (prev.pausedAccum + elapsed)
    IN IF rest > 0 THEN rest ELSE 0

\* remaining of the timer countdown effect
timerRemaining(prev) ==
    LET elapsed == (Now - GetTime(prev.startTime)) \div 1000
        rest == prev.timerSet - (prev.pausedAccum + elapsed)
    IN IF rest > 0 THEN rest ELSE 0

\* a countdown frame that shows the time run instead of the time remaining
timerUpdate_showsElapsed(prev) ==
    LET remaining == timerRemaining(prev)
    IN IF remaining = 0
       THEN [prev EXCEPT !.running = FALSE, !.paused = FALSE, !.flash = TRUE, !.time = 0,
                         !.startTime = Null, !.pausedAccum = 0]
       ELSE [prev EXCEPT !.time = prev.timerSet - remaining]

\* update() of the timer countdown effect: both setState calls of one frame
timerUpdate(prev) ==
    LET remaining == timerRemaining(prev)
    IN IF remaining = 0
       THEN [prev EXCEPT !.running = FALSE, !.paused = FALSE, !.flash = TRUE, !.time = 0,
                         !.startTime = Null, !.pausedAccum = 0]
       ELSE [prev EXCEPT !.time = remaining]

(* ---------------- effects run after a commit ---------------- *)

\* "Reset time to timerSet when stopped"
resetTimeDeps(s) == << s.timerSet, s.running, s.paused, s.mode, s.flash >>

\* the effect with `state.mode` missing from its dependency array
resetTimeEffect_ignoresMode(old, new) ==
    IF << old.timerSet, old.running, old.paused, old.flash >>
          # << new.timerSet, new.running, new.paused, new.flash >>
       /\ ~new.running /\ ~new.paused /\ new.mode = "timer" /\ ~new.flash
    THEN [new EXCEPT !.time = new.timerSet]
    ELSE new

resetTimeEffect(old, new) ==
    IF resetTimeDeps(old) # resetTimeDeps(new)
       /\ ~new.running /\ ~new.paused /\ new.mode = "timer" /\ ~new.flash
    THEN [new EXCEPT !.time = new.timerSet]
    ELSE new

\* the state after the commit of `new` and of the updates its effects make
Commit(old, new) == resetTimeEffect(old, new)

\* "Flashing effect when timer ends": its dependencies as far as they are state
\* (updateDisplayText changes with mode, flash and displayFormat)
flashDeps(s) == << s.flash, s.mode, s.running, s.paused, s.timerSet, s.time, s.displayFormat >>

\* the pending stopFlashTimeout after the commit: cleared and set again
\* whenever a dependency changed
flashEffect(old, new, pending) ==
    IF ~new.flash THEN Null
    ELSE IF flashDeps(old) # flashDeps(new) THEN Date(Now + FLASH_TIMEOUT)
    ELSE pending

\* the callback of stopFlashTimeout
stopFlash(prev) == [prev EXCEPT !.flash = FALSE, !.mode = "clock", !.timerSet = 0]

(* ---------------- the tick-counting Timer (src/components/timer.tsx) ---------------- *)

\* The TimerState of Timer.  Of startTime only whether it is set is kept: the
\* instant is copied into log entries and read nowhere else.
Timer_InitialState ==
    [mode |-> "stopwatch", displayFormat |-> "hms", running |-> FALSE, paused |-> FALSE,
     time |-> 0, timerSet |-> 0, flash |-> FALSE, startTime |-> FALSE]

\* getMaxTime as rendered with state s
Timer_getMaxTime(s) ==
    IF s.mode = "timer" THEN TIMER_MAX
    ELSE IF s.displayFormat = "hms" THEN STOPWATCH_HMS_MAX ELSE STOPWATCH_MS_MAX

\* handleFormatToggle of Timer: its callback is re-created with state.mode
Timer_handleFormatToggle(prevState) ==
    IF prevState.mode = "stopwatch"
    THEN LET newFormat == IF prevState.displayFormat = "hms" THEN "ms" ELSE "hms"
             newTime == IF prevState.displayFormat = "hms" /\ newFormat = "ms"
                        THEN prevState.time * 100
                        ELSE IF prevState.displayFormat = "ms" /\ newFormat = "hms"
                        THEN prevState.time \div 100
                        ELSE prevState.time
         IN [prevState EXCEPT !.displayFormat = newFormat, !.time = newTime]
    ELSE [prevState EXCEPT !.displayFormat = IF prevState.displayFormat = "hms" THEN "ms" ELSE "hms"]

\* handleStartStop of Timer
Timer_handleStartStop(prevState) ==
    IF prevState.paused THEN [prevState EXCEPT !.paused = FALSE, !.running = TRUE]
    ELSE IF prevState.running THEN [prevState EXCEPT !.running = FALSE, !.paused = TRUE]
    ELSE [prevState EXCEPT !.running = TRUE, !.paused = FALSE,
                           !.startTime = IF prevState.mode = "stopwatch" THEN TRUE ELSE @]

\* the mode button of Timer's handleClick
Timer_modeButton(prevState) ==
    [prevState EXCEPT !.mode = IF prevState.mode = "timer" THEN "stopwatch" ELSE "timer",
                      !.running = FALSE, !.paused = FALSE, !.time = 0, !.startTime = FALSE]

\* the reset label of Timer's handleClick
Timer_resetButton(prevState) ==
    [prevState EXCEPT !.running = FALSE, !.paused = FALSE,
                      !.time = IF prevState.mode = "timer" THEN prevState.timerSet ELSE 0,
                      !.startTime = FALSE]

\* the H, M and S buttons of Timer's handleClick: the condition is read from
\* the state the handler closed over, the update is made on the current state
Timer_incrementField(closed, prevState, increment) ==
    IF ~closed.running /\ closed.mode = "timer"
    THEN LET newVal == prevState.timerSet + increment
         IN [prevState EXCEPT !.timerSet = IF newVal <= Timer_getMaxTime(closed)
                                            THEN newVal ELSE prevState.timerSet]
    ELSE prevState

\* the state handleLog of Timer sets; the log entries themselves are a state
\* of their own that nothing here reads
Timer_handleLog(s) ==
    IF s.mode = "stopwatch" /\ s.startTime /\ s.time > 0
    THEN [s EXCEPT !.running = FALSE, !.paused = FALSE, !.time = 0, !.startTime = FALSE]
    ELSE s

\* the callback of the interval of the timer/stopwatch effect
Timer_tick(prevState) ==
    IF prevState.mode = "timer"
    THEN IF prevState.time <= 1
         THEN [prevState EXCEPT !.running = FALSE, !.paused = FALSE, !.flash = TRUE, !.time = 0]
         ELSE [prevState EXCEPT !.time = prevState.time - 1]
    ELSE IF prevState.time >= Timer_getMaxTime(prevState) THEN prevState
         ELSE [prevState EXCEPT !.time = prevState.time + 1]

\* the effect that resets time to timerSet when completely stopped
Timer_resetTimeEffect(old, new) ==
    IF << old.timerSet, old.running, old.paused, old.mode >>
          # << new.timerSet, new.running, new.paused, new.mode >>
       /\ ~new.running /\ ~new.paused /\ new.mode = "timer"
    THEN [new EXCEPT !.time = new.timerSet]
    ELSE new

\* the state the handlers of the scene effect close over after the commit of
\* `new`: the effect runs again only when mode or displayFormat changed
Timer_sceneEffect(old, new, closed) ==
    IF old.mode # new.mode \/ old.displayFormat # new.displayFormat THEN new ELSE closed

(* ---------------- state ---------------- *)

VARIABLES
    state,             \* the TimerState of TimerComponent
    sessions,          \* the sessions of SessionProvider
    stopFlashTimeout,  \* deadline of the pending flash timeout, or Null
    sessionStart,      \* history: the instant the engine last left Stopped, or Null
    held,              \* history: the pause being followed across its resume, or Null
    lastTick,          \* history: the time the last frame produced, no command since, or Null
    buttonPressRef,    \* buttonPressRef.current: the interval stored for each button held
    intervals,         \* the press-and-hold intervals that have not been cleared
    inputsDown,        \* history: the mouse buttons down on the H, M and S buttons
    ranMs,             \* history: ms the countdown has spent running since its fresh start
    tickState,         \* the TimerState of the tick-counting Timer (src/components/timer.tsx)
    sceneState         \* the TimerState the handlers of Timer's scene effect closed over

vars == << state, sessions, stopFlashTimeout, sessionStart, held, lastTick,
           buttonPressRef, intervals, inputsDown, ranMs, tickState, sceneState >>

tickVars == << tickState, sceneState >>

pressVars == << buttonPressRef, intervals, inputsDown >>

Stopped(s) == ~s.running /\ ~s.paused

Init ==
    /\ state = InitialState
    /\ sessions = << >>
    /\ stopFlashTimeout = Null
    /\ sessionStart = Null
    /\ held = Null
    /\ lastTick = Null
    /\ buttonPressRef = << >>
    /\ intervals = {}
    /\ inputsDown = 0
    /\ ranMs = 0
    /\ tickState = Timer_InitialState
    /\ sceneState = Timer_InitialState

\* The engine after the mode button and enough presses of H, M and S in the
\* initial state to configure a countdown that one more press of a button
\* takes to within MaxTimerSet of TIMER_MAX.
InitConfigured ==
    /\ \E unit \in {3600, 60, 1}, k \in 0..MaxTimerSet :
         LET timerSet == TIMER_MAX - unit - k
         IN state = [InitialState EXCEPT !.mode = "timer", !.timerSet = timerSet,
                                         !.time = timerSet]
    /\ sessions = << >>
    /\ stopFlashTimeout = Null
    /\ sessionStart = Null
    /\ held = Null
    /\ lastTick = Null
    /\ buttonPressRef = << >>
    /\ intervals = {}
    /\ inputsDown = 0
    /\ ranMs = 0
    /\ tickState = Timer_InitialState
    /\ sceneState = Timer_InitialState

\* commit `new`, run the effects, and keep the history
Apply(new) ==
    LET final == Commit(state, new)
    IN /\ state' = final
       /\ stopFlashTimeout' = flashEffect(state, final, stopFlashTimeout)
       /\ sessionStart' = IF Stopped(final) THEN Null
                          ELSE IF Stopped(state) \/ (state.mode = "clock" /\ final.mode # "clock")
                          THEN Date(Now)
                          ELSE sessionStart
       /\ ranMs' = IF Stopped(final) /\ ~final.flash THEN 0
                   ELSE IF Stopped(state) \/ (state.mode = "clock" /\ final.mode # "clock")
                   THEN 0
                   ELSE ranMs

\* history of a pause: `time` as it was held right before the pause, and
\* whether the engine has since been resumed by the very next command
Pausing(old, new) == old.running /\ new.paused
Resuming(old, new) == old.paused /\ new.running

heldAfterStartStop(old, new) ==
    IF Pausing(old, new) THEN << [time |-> old.time, resumed |-> FALSE] >>
    ELSE IF Resuming(old, new) /\ held # Null THEN << [held[1] EXCEPT !.resumed = TRUE] >>
    ELSE Null

StartStop ==
    /\ Apply(handleStartStop(state))
    /\ held' = heldAfterStartStop(state, handleStartStop(state))
    /\ lastTick' = Null
    /\ UNCHANGED << sessions, pressVars, tickVars >>

ModeButton ==
    /\ Apply(modeButton(state))
    /\ held' = Null
    /\ lastTick' = Null
    /\ UNCHANGED << sessions, pressVars, tickVars >>

FormatToggle ==
    /\ Apply(handleFormatToggle(state))
    /\ held' = Null
    /\ lastTick' = Null
    /\ UNCHANGED << sessions, pressVars, tickVars >>

Reset ==
    /\ Apply(handleReset(state))
    /\ held' = Null
    /\ lastTick' = Null
    /\ UNCHANGED << sessions, pressVars, tickVars >>

\* One run of the updater the H, M and S buttons share: a click, or one firing
\* of the press-and-hold interval.  Countdown lengths are explored up to
\* MaxTimerSet and within MaxTimerSet of TIMER_MAX.
IncrementBy(increment) ==
    /\ \/ state.timerSet + increment <= MaxTimerSet
       \/ state.timerSet + increment >= TIMER_MAX - MaxTimerSet
    /\ Apply(incrementField(state, increment))
    /\ held' = Null
    /\ lastTick' = Null
    /\ UNCHANGED << sessions, pressVars, tickVars >>

Increment == \E increment \in {3600, 60, 1} : IncrementBy(increment)

\* handleLog.  The updater calls addSession and handleReset itself.  When React
\* runs the updater at dispatch time (no update pending on the component) the
\* reset is queued ahead of the updater's own result, which then replaces it;
\* when React runs the updater while rendering, the reset is applied on top.
\* Which of the two happens is React's choice.
Log ==
    /\ Len(sessions) < MaxSessions
    /\ UNCHANGED << pressVars, tickVars >>
    /\ held' = Null
    /\ lastTick' = Null
    /\ IF state.mode # "stopwatch"
       THEN Apply(state) /\ UNCHANGED sessions
       ELSE /\ sessions' = IF state.startTime # Null /\ state.time > 0
                           THEN addSession(sessions, logEntry(state))
                           ELSE sessions
            /\ \E eager \in BOOLEAN :
                 Apply(IF eager THEN handleLog(state) ELSE handleReset(handleLog(state)))

StopwatchTick ==
    /\ state.mode = "stopwatch"
    /\ state.running /\ state.startTime # Null
    /\ Apply(stopwatchUpdate(state))
    /\ held' = Null
    /\ lastTick' = << state'.time >>
    /\ UNCHANGED << sessions, pressVars, tickVars >>

TimerTick ==
    /\ state.mode = "timer"
    /\ state.running /\ state.startTime # Null
    /\ Apply(timerUpdate(state))
    /\ held' = Null
    /\ lastTick' = << state'.time >>
    /\ UNCHANGED << sessions, pressVars, tickVars >>

FlashExpire ==
    /\ stopFlashTimeout # Null
    /\ GetTime(stopFlashTimeout) <= Now
    /\ Apply(stopFlash(state))
    /\ held' = Null
    /\ lastTick' = Null
    /\ UNCHANGED << sessions, pressVars, tickVars >>

\* an id no entry carries: the ids of the log are instants up to the present
NoSuchId == Now + 1

\* the ids removeSession is called with: those of the entries on display, and
\* one that is not (or no longer) in the log
RemovableIds == {sessions[i].id : i \in 1..Len(sessions)} \cup {NoSuchId}

RemoveSessionBy(id) ==
    /\ sessions' = removeSession(sessions, id)
    /\ UNCHANGED << state, stopFlashTimeout, sessionStart, held, lastTick, pressVars, ranMs, tickVars >>

RemoveSession == \E id \in RemovableIds : RemoveSessionBy(id)

ClearSessions ==
    /\ sessions' = clearSessions
    /\ UNCHANGED << state, stopFlashTimeout, sessionStart, held, lastTick, pressVars, ranMs, tickVars >>

\* every instant the engine or the history holds
Instants ==
    (IF state.startTime = Null THEN {} ELSE {GetTime(state.startTime)})
    \cup (IF sessionStart = Null THEN {} ELSE {GetTime(sessionStart)})

Shift(d, date) == IF date = Null THEN Null ELSE Date(GetTime(date) - d)

\* a stretch of time inside the bounds: short, or the long step and then short
InBounds(ms) == ms <= MaxAge \/ (LongStep <= ms /\ ms <= LongStep + MaxAge)

\* the running time the engine has counted, in ms, were d more ms to pass
RunMs(d) ==
    state.pausedAccum * UnitMs(state.displayFormat) + (Now - GetTime(state.startTime)) + d

\* letting d more ms pass keeps every stored instant and count inside the bounds;
\* a flash window that finds the engine paused is followed to its end, and a
\* countdown for twice as long, which is what one of two seconds takes after a
\* pause half a second into it
WithinBounds(d) ==
    /\ \A t \in Instants :
         \/ InBounds(Now - (t - d))
         \/ /\ stopFlashTimeout # Null /\ state.startTime = Null
            /\ Now - (t - d) <= MaxAge + FLASH_TIMEOUT
         \/ state.mode = "timer" /\ Now - (t - d) <= 2 * MaxAge + HalfStep
    /\ \A i \in 1..Len(sessions) : Now - (sessions[i].id - d) <= MaxEntryAge
    /\ state.running =>
         /\ state.pausedAccum <= (LongStep + MaxAge) \div UnitMs(state.displayFormat)
         /\ \/ InBounds(RunMs(d))
            \/ state.mode = "timer" /\ RunMs(d) <= 2 * MaxAge

\* an animation frame requested by the active effect would change the state
FrameDue ==
    /\ state.running /\ state.startTime # Null
    /\ \/ state.mode = "stopwatch" /\ stopwatchUpdate(state) # state
       \/ state.mode = "timer" /\ timerUpdate(state) # state

\* a clock that keeps counting into the time of a paused engine
Later_countsWhilePaused(d, s) ==
    [s EXCEPT !.startTime = Shift(d, s.startTime), !.time = IF s.paused THEN @ + 1 ELSE @]

\* the state d milliseconds later
Later(d, s) == [s EXCEPT !.startTime = Shift(d, s.startTime)]

\* Half a second passes.  Animation frames are at least that frequent: a frame
\* that is due runs before more time passes, and a pending timeout fires no
\* later than its deadline.
Advance ==
    /\ ~FrameDue
    /\ stopFlashTimeout # Null => GetTime(stopFlashTimeout) - HalfStep >= Now
    /\ WithinBounds(HalfStep)
    /\ state' = Later(HalfStep, state)
    /\ stopFlashTimeout' = Shift(HalfStep, stopFlashTimeout)
    /\ sessionStart' = Shift(HalfStep, sessionStart)
    /\ sessions' = [i \in 1..Len(sessions) |->
                      [sessions[i] EXCEPT !.id = @ - HalfStep, !.startTime = @ - HalfStep]]
    /\ held' = IF held # Null /\ held[1].resumed THEN Null ELSE held
    /\ intervals' = {[i EXCEPT !.due = TRUE] : i \in intervals}
    /\ ranMs' = IF state.mode = "timer" /\ state.running THEN ranMs + HalfStep ELSE ranMs
    /\ UNCHANGED << lastTick, buttonPressRef, inputsDown, tickVars >>

\* A long time passes without any command: the log is empty, no timeout is
\* pending and no countdown is running.  A running stopwatch keeps getting its
\* animation frames, the last of them at the end.
LongRun ==
    /\ ~FrameDue
    /\ stopFlashTimeout = Null
    /\ sessions = << >>
    /\ ~(state.mode = "timer" /\ state.running)
    /\ WithinBounds(LongStep)
    /\ LET later == Later(LongStep, state)
       IN IF later.mode = "stopwatch" /\ later.running /\ later.startTime # Null
          THEN state' = stopwatchUpdate(later) /\ lastTick' = << state'.time >>
          ELSE state' = later /\ UNCHANGED lastTick
    /\ sessionStart' = Shift(LongStep, sessionStart)
    /\ held' = IF held # Null /\ held[1].resumed THEN Null ELSE held
    /\ UNCHANGED << sessions, stopFlashTimeout, pressVars, ranMs, tickVars >>

Next ==
    \/ StartStop
    \/ ModeButton
    \/ FormatToggle
    \/ Reset
    \/ Increment
    \/ Log
    \/ StopwatchTick
    \/ TimerTick
    \/ FlashExpire
    \/ RemoveSession
    \/ ClearSessions
    \/ Advance
    \/ LongRun

Spec == Init /\ [][Next]_vars

\* the steps of the engine while the log button is left alone
EngineNext ==
    \/ StartStop
    \/ ModeButton
    \/ FormatToggle
    \/ Reset
    \/ Increment
    \/ StopwatchTick
    \/ TimerTick
    \/ FlashExpire
    \/ Advance

\* the engine from a countdown configured close to TIMER_MAX
SpecConfigured == InitConfigured /\ [][EngineNext]_vars

\* The wall clock is set back by half a second (by the user, or by a time
\* synchronisation) while a run segment is open: the instants read from it
\* earlier now lie that much later relative to the present.  Timeouts do not
\* follow the wall clock.  Explored while nothing has been banked yet, the
\* countdown has not run for longer than MaxAge, and startTime does not
\* already lie in the future.
ClockSetBack ==
    /\ state.startTime # Null
    /\ GetTime(state.startTime) <= Now
    /\ state.time >= 0 /\ state.pausedAccum = 0
    /\ ranMs <= MaxAge
    /\ state' = Later(0 - HalfStep, state)
    /\ sessionStart' = Shift(0 - HalfStep, sessionStart)
    /\ sessions' = [i \in 1..Len(sessions) |->
                      [sessions[i] EXCEPT !.id = @ + HalfStep, !.startTime = @ + HalfStep]]
    /\ UNCHANGED << stopFlashTimeout, held, lastTick, pressVars, ranMs, tickVars >>

AdjustedNext ==
    \/ EngineNext
    \/ ClockSetBack

\* the engine under a wall clock that can be set back
SpecAdjustedClock == Init /\ [][AdjustedNext]_vars

(* ---------------- press and hold on the H, M and S buttons ---------------- *)

Buttons == {"hButtonMesh", "mButtonMesh", "sButtonMesh"}

\* the increment handleMouseDown picks for the button under the pointer
buttonIncrement(clickedObject) ==
    IF clickedObject = "hButtonMesh" THEN 3600
    ELSE IF clickedObject = "mButtonMesh" THEN 60 ELSE 1

\* setInterval returns an id no live interval has
newIntervalId == CHOOSE n \in 1..MaxIntervals : \A i \in intervals : i.id # n

\* handleMouseDown with the pointer on a button: a mouse button goes down
\* while the pointer is over H, M or S.  The interval has not fired yet.
MouseDown ==
    /\ Cardinality(intervals) < MaxIntervals
    /\ inputsDown < MaxIntervals
    /\ \E clickedObject \in Buttons :
         LET intervalId == newIntervalId
         IN /\ intervals' = intervals \cup
                   {[id |-> intervalId, increment |-> buttonIncrement(clickedObject),
                     due |-> FALSE]}
            /\ buttonPressRef' =
                   [b \in DOMAIN buttonPressRef \cup {clickedObject} |->
                       IF b = clickedObject THEN intervalId ELSE buttonPressRef[b]]
    /\ inputsDown' = inputsDown + 1
    /\ UNCHANGED << state, sessions, stopFlashTimeout, sessionStart, held, lastTick, ranMs, tickVars >>

\* handleMouseUp: clearInterval on every id stored in buttonPressRef.current
handleMouseUp ==
    /\ intervals' = {i \in intervals :
                        \A b \in DOMAIN buttonPressRef : buttonPressRef[b] # i.id}
    /\ buttonPressRef' = << >>

\* mouseup: one of the mouse buttons held on H, M or S is released
MouseUp ==
    /\ inputsDown > 0
    /\ handleMouseUp
    /\ inputsDown' = inputsDown - 1
    /\ UNCHANGED << state, sessions, stopFlashTimeout, sessionStart, held, lastTick, ranMs, tickVars >>

\* mouseleave: the pointer leaves the canvas, whatever was held
MouseLeave ==
    /\ inputsDown > 0
    /\ handleMouseUp
    /\ inputsDown' = 0
    /\ UNCHANGED << state, sessions, stopFlashTimeout, sessionStart, held, lastTick, ranMs, tickVars >>

\* One firing of a press-and-hold interval, LONG_PRESS = 200 ms or more after
\* it was set or last fired.  Countdown lengths are explored as in IncrementBy.
IntervalFire ==
    \E i \in intervals :
       /\ i.due
       /\ \/ state.timerSet + i.increment <= MaxTimerSet
          \/ state.timerSet + i.increment >= TIMER_MAX - MaxTimerSet
       /\ Apply(incrementField(state, i.increment))
       /\ intervals' = (intervals \ {i}) \cup {[i EXCEPT !.due = FALSE]}
       /\ held' = Null
       /\ lastTick' = Null
       /\ UNCHANGED << sessions, buttonPressRef, inputsDown, tickVars >>

\* the presses, and the steps of the engine they can fall into: the format and
\* reset buttons are left alone
PressNext ==
    \/ StartStop
    \/ ModeButton
    \/ Increment
    \/ StopwatchTick
    \/ TimerTick
    \/ FlashExpire
    \/ Advance
    \/ MouseDown
    \/ MouseUp
    \/ MouseLeave
    \/ IntervalFire

\* the engine with the H, M and S buttons pressed and held
SpecPress == Init /\ [][PressNext]_vars

(* ---------------- steps of the tick-counting Timer ---------------- *)

\* the variables of TimerComponent and its session log
componentVars ==
    << state, sessions, stopFlashTimeout, sessionStart, held, lastTick, pressVars, ranMs >>

\* commit `new` in Timer and run its effects
Timer_Apply(new) ==
    /\ tickState' = Timer_resetTimeEffect(tickState, new)
    /\ sceneState' = Timer_sceneEffect(tickState, new, sceneState)
    /\ UNCHANGED componentVars

Timer_StartStop == Timer_Apply(Timer_handleStartStop(tickState))

Timer_ModeButton == Timer_Apply(Timer_modeButton(tickState))

Timer_FormatToggle == Timer_Apply(Timer_handleFormatToggle(tickState))

Timer_ResetButton == Timer_Apply(Timer_resetButton(tickState))

\* a click on H, M or S; countdown lengths are explored up to MaxTimerSet
Timer_ClickBy(increment) ==
    /\ tickState.timerSet + increment <= MaxTimerSet
    /\ Timer_Apply(Timer_incrementField(sceneState, tickState, increment))

Timer_Click == \E increment \in {3600, 60, 1} : Timer_ClickBy(increment)

Timer_Log == Timer_Apply(Timer_handleLog(tickState))

\* one firing of the interval of the timer/stopwatch effect; the stopwatch is
\* followed one tick at a time up to MaxTicks
Timer_Tick ==
    /\ tickState.running /\ ~tickState.paused
    /\ tickState.mode = "stopwatch" => tickState.time < MaxTicks
    /\ Timer_Apply(Timer_tick(tickState))

\* the flash interval of the flashing effect switches the flash off
Timer_FlashOff ==
    /\ tickState.flash
    /\ Timer_Apply([tickState EXCEPT !.flash = FALSE])

TickNext ==
    \/ Timer_StartStop
    \/ Timer_ModeButton
    \/ Timer_FormatToggle
    \/ Timer_ResetButton
    \/ Timer_Click
    \/ Timer_Log
    \/ Timer_Tick
    \/ Timer_FlashOff

\* the tick-counting Timer on its own
SpecTickCounting == Init /\ [][TickNext]_vars

\* the animation frames keep coming while an effect has one requested, timeouts
\* fire, and time passes
FairSpec ==
    /\ Spec
    /\ WF_vars(Advance)
    /\ WF_vars(FlashExpire)
    /\ WF_vars(StopwatchTick)
    /\ WF_vars(TimerTick)

(* ======================= claims ======================= *)

\* a step of handleLog in which the preconditions of logSession hold
LogWithPreconditions ==
    /\ Log
    /\ state.mode = "stopwatch" /\ state.startTime # Null /\ state.time > 0

\* C1: elapsed (time) never exceeds the maximum of the current mode/format.
C1_ElapsedWithinMax == state.time <= getMaxTime(state)

\* C2: running and paused are never both true.
C2_NotRunningAndPaused == ~(state.running /\ state.paused)

\* a paused engine that has banked a run segment
C2_Witness == state.paused /\ ~state.running /\ state.pausedAccum > 0

\* C3: startTime is set if and only if running is true.
C3_StartTimeIffRunning == (state.startTime # Null) <=> state.running

\* an engine running again after a pause
C3_Witness == state.running /\ state.startTime # Null /\ state.pausedAccum > 0

\* C4: after pause then resume, the first tick (before any running time has
\* passed since the resume) produces the elapsed value held right before the pause.
C4_ResumeContinuity ==
    [][ (held # Null /\ held[1].resumed /\ (StopwatchTick \/ TimerTick))
          => state'.time = held[1].time ]_vars

\* the Expired state
Expired(s) ==
    /\ ~s.running /\ ~s.paused /\ s.flash /\ s.time = 0
    /\ s.startTime = Null /\ s.pausedAccum = 0

\* a countdown started from stopped, never paused, that has run for timerSet seconds
RanToTarget ==
    /\ state.mode = "timer" /\ state.running /\ state.timerSet > 0
    /\ state.startTime # Null /\ state.startTime = sessionStart
    /\ Now - GetTime(state.startTime) >= state.timerSet * 1000

\* C5: in Timer mode, a tick of a run started from stopped that has covered
\* timerSet seconds of running time finds no time remaining and puts the
\* engine in the Expired state.
C5_TimerExpires ==
    /\ [](RanToTarget => timerRemaining(state) = 0)
    /\ [][ (TimerTick /\ RanToTarget) => Expired(state') ]_vars

\* a countdown has just expired
C5_Witness ==
    /\ Expired(state) /\ state.mode = "timer" /\ state.timerSet > 0
    /\ stopFlashTimeout = Date(Now + FLASH_TIMEOUT)

\* the clock of the model cannot go on from here
Capped == ~WithinBounds(HalfStep)

\* C6: whenever flashing becomes true it eventually becomes false again,
\* whatever the user does (as far as the clock of the model reaches), and
\* where it is cleared mode = clock and timerSet = 0.
C6_FlashClears ==
    /\ state.flash ~> (~state.flash \/ Capped)
    /\ [][ (state.flash /\ ~state'.flash)
             => (state'.mode = "clock" /\ state'.timerSet = 0) ]_vars

\* C7: flashing starts only by a tick in Timer mode while running with no time
\* remaining; while flashing the engine is neither running nor paused; and when
\* the flash window ends the engine is Stopped in Clock mode.
C7_ExpiredTerminal ==
    [][ /\ (~state.flash /\ state'.flash)
             => ( /\ TimerTick
                  /\ state.mode = "timer" /\ state.running
                  /\ timerRemaining(state) = 0 )
        /\ state'.flash => Stopped(state')
        /\ (state.flash /\ ~state'.flash)
             => (Stopped(state') /\ state'.startTime = Null /\ state'.mode = "clock")
      ]_vars

\* C8: after a logSession whose preconditions hold the engine is in Stopwatch
\* mode, stopped, with elapsed = 0.
C8_LogKeepsStopwatch ==
    [][ LogWithPreconditions
          => (state'.mode = "stopwatch" /\ Stopped(state') /\ state'.time = 0) ]_vars

\* elapsed in seconds under a display format
Seconds(time, format) == IF format = "hms" THEN time ELSE time \div 100

\* C9: a logSession whose preconditions hold appends exactly one entry, whose
\* duration is the elapsed time in seconds in either display format.
C9_DurationInSeconds ==
    [][ LogWithPreconditions
          => ( /\ Len(sessions') = Len(sessions) + 1
               /\ Head(sessions').duration = Seconds(state.time, state.displayFormat) )
      ]_vars

\* C10: the startTime of a logged entry is the instant the session was first
\* started from stopped, not the instant of its most recent resume.
C10_EntryStartIsFirstStart ==
    [][ LogWithPreconditions
          => Head(sessions').startTime = GetTime(sessionStart) ]_vars

\* a step of handleLog in which a precondition of logSession fails
LogWithoutPreconditions ==
    /\ Log
    /\ state.mode # "stopwatch" \/ state.time = 0

\* C11: logSession issued with elapsed = 0, or in a mode other than Stopwatch,
\* appends no entry and leaves every field of the engine state unchanged.
C11_LogWithoutPreconditionsNoOp ==
    [][ LogWithoutPreconditions => (sessions' = sessions /\ state' = state) ]_vars

\* C12: reset issued in any reachable state yields mode = clock, running = false,
\* paused = false, time = 0 and timerSet = 0, with startTime cleared and
\* pausedAccum = 0.
C12_ResetYieldsClock ==
    [][ Reset => ( /\ state'.mode = "clock" /\ ~state'.running /\ ~state'.paused
                   /\ state'.time = 0 /\ state'.timerSet = 0
                   /\ state'.startTime = Null /\ state'.pausedAccum = 0 ) ]_vars

\* the engine right after a reset issued in the flash window
C12_Witness ==
    /\ state.mode = "clock" /\ state.flash /\ Stopped(state)
    /\ state.time = 0 /\ state.timerSet = 0 /\ state.startTime = Null
    /\ stopFlashTimeout = Date(Now + FLASH_TIMEOUT)

\* incrementField(unit) is rejected in this state
Rejected(unit) ==
    state.running \/ state.mode # "timer" \/ state.timerSet + unit > 359999

\* C13: incrementField(unit), unit in {3600, 60, 1}, leaves the whole engine
\* state unchanged when running, when mode is not Timer, or when
\* timerSet + unit would exceed 359999; otherwise it adds exactly unit to
\* timerSet.  Hence timerSet never exceeds 359999.
C13_IncrementRejectedOrExact ==
    /\ [](state.timerSet <= 359999)
    /\ [][ \A unit \in {3600, 60, 1} :
              IncrementBy(unit) =>
                 IF Rejected(unit) THEN state' = state
                 ELSE state'.timerSet = state.timerSet + unit ]_vars

\* a countdown of exactly 99:59:59 that a press of H or M brought there
C13_Witness ==
    /\ state.mode = "timer" /\ Stopped(state)
    /\ state.timerSet = 359999 /\ state.time = 359999
    /\ Rejected(1) /\ Rejected(60) /\ Rejected(3600)

\* C14: in every reachable state with mode = timer, stopped and not flashing,
\* time equals timerSet.
C14_StoppedTimerMirrorsTarget ==
    (state.mode = "timer" /\ Stopped(state) /\ ~state.flash)
        => state.time = state.timerSet

\* a stopped timer showing a countdown configured before the engine was last
\* in Stopwatch mode
C14_Witness ==
    /\ state.mode = "timer" /\ Stopped(state) /\ ~state.flash
    /\ state.timerSet > 0 /\ state.time = state.timerSet
    /\ state.displayFormat = "ms"

SwitchesMode ==
    /\ state'.mode = (IF state.mode = "timer" THEN "stopwatch" ELSE "timer")
    /\ ~state'.running /\ ~state'.paused /\ state'.startTime = Null

\* C16: switchMode issued in any state yields mode = stopwatch if the mode was
\* timer and mode = timer otherwise, with running = false, paused = false,
\* startTime cleared and time = 0.
C16_SwitchModeClearsElapsed ==
    [][ ModeButton => (SwitchesMode /\ state'.time = 0) ]_vars

\* C16 as amended: as above, but time is timerSet where the engine enters
\* Timer mode while not flashing, and 0 otherwise.
C16_SwitchModeMirrorsTarget ==
    [][ ModeButton =>
          ( /\ SwitchesMode
            /\ state'.time = IF state'.mode = "timer" /\ ~state'.flash
                              THEN state'.timerSet ELSE 0 ) ]_vars

\* the engine switched into Timer mode with a countdown configured earlier and
\* run for a while
C16_Witness ==
    /\ state.mode = "timer" /\ Stopped(state) /\ state.startTime = Null
    /\ state.timerSet > 0 /\ state.time = state.timerSet /\ state.pausedAccum > 0

\* C17: after the initial state, mode changes to clock only by reset or by the
\* end of the flash window: no startOrToggle, switchMode, toggleFormat,
\* incrementField, logSession or tick takes the engine from Timer or Stopwatch
\* mode to Clock mode.
C17_ClockOnlyByResetOrFlashEnd ==
    [][ (state.mode # "clock" /\ state'.mode = "clock") => (Reset \/ FlashExpire) ]_vars

\* C18: startOrToggle issued in Clock mode switches to Stopwatch mode with
\* running = true, paused = false, time = 0, pausedAccum = 0 and startTime set
\* to now, whatever the previous values of those fields were.
C18_ClockStartIsFreshStopwatch ==
    [][ (StartStop /\ state.mode = "clock") =>
          ( /\ state'.mode = "stopwatch" /\ state'.running /\ ~state'.paused
            /\ state'.time = 0 /\ state'.pausedAccum = 0
            /\ state'.startTime = Date(Now) ) ]_vars

\* a stopwatch just started from Clock mode in the flash window, after a reset
C18_Witness ==
    /\ state.mode = "stopwatch" /\ state.running /\ ~state.paused
    /\ state.time = 0 /\ state.pausedAccum = 0 /\ state.startTime = Date(Now)
    /\ state.flash /\ state.timerSet = 0

\* a step made of animation frames of the running stopwatch
StopwatchFrames ==
    StopwatchTick \/ (LongRun /\ state.mode = "stopwatch" /\ state.running)

\* C19: across consecutive ticks while running with no command in between,
\* the stopwatch's time never decreases from one tick to the next and the
\* timer's remaining time never increases.
C19_TicksMonotonic ==
    [][ /\ (lastTick # Null /\ StopwatchFrames) => state'.time >= lastTick[1]
        /\ (lastTick # Null /\ TimerTick) => state'.time <= lastTick[1] ]_vars

\* a stopwatch in ms format after its frames at half a second and at one second
C19_Witness ==
    /\ state.mode = "stopwatch" /\ state.running /\ state.displayFormat = "ms"
    /\ state.startTime = Date(Now - 2 * HalfStep) /\ state.pausedAccum = 0
    /\ lastTick = << 100 >> /\ state.time = 100

\* the entries of the log d milliseconds later, none of them changed
Aged(d) ==
    [i \in 1..Len(sessions) |->
        [sessions[i] EXCEPT !.id = @ - d, !.startTime = @ - d]]

\* every entry of the log after the step was in the log before it
NoneAdded == \A j \in 1..Len(sessions') : \E i \in 1..Len(sessions) : sessions'[j] = sessions[i]

\* C20: the log gains an entry only through logSession issued in Stopwatch
\* mode with time > 0, so every entry has a positive duration; an entry's id,
\* startTime, duration and formattedDuration never change while it is in the
\* log; and entries leave the log only through remove(id) or clear().
C20_LogEntryLifecycle ==
    /\ [](\A i \in 1..Len(sessions) : sessions[i].duration > 0)
    /\ [][ \/ sessions' = sessions
           \/ Advance /\ sessions' = Aged(HalfStep)
           \/ /\ LogWithPreconditions
              /\ Len(sessions') = Len(sessions) + 1 /\ Tail(sessions') = sessions
           \/ (RemoveSession \/ ClearSessions) /\ NoneAdded ]_vars

\* a log of two entries, the older of which has been in it for half a second
C20_Witness ==
    /\ Len(sessions) = 2
    /\ sessions[1].id = Now /\ sessions[2].id = Now - HalfStep
    /\ sessions[1].duration > 0 /\ sessions[2].duration > 0

\* C21: in every reachable state the ids of the entries in the log are
\* pairwise distinct.
C21_IdsDistinct ==
    \A i, j \in 1..Len(sessions) : i # j => sessions[i].id # sessions[j].id

\* the entries of a log whose id differs from the given one, in order
Others(log, id) == SelectSeq(log, LAMBDA s : s.id # id)

\* C22: remove(id) removes at most one entry: afterwards the length of the
\* log has decreased by at most 1, and every entry whose id differs from the
\* argument is still present in the same relative order.
C22_RemoveAtMostOne ==
    [][ \A id \in RemovableIds :
          RemoveSessionBy(id) =>
             ( /\ Len(sessions') >= Len(sessions) - 1
               /\ Others(sessions', id) = Others(sessions, id) ) ]_vars

\* some ids that no entry of the log carries
AbsentIds ==
    {id \in {Now - HalfStep, Now, NoSuchId} : \A i \in 1..Len(sessions) : sessions[i].id # id}

\* C23: removeSession(id) for an id that no entry of the log carries leaves the
\* log unchanged (same entries, same order); removing leaves the engine state
\* unchanged.
C23_RemoveAbsentIsNoOp ==
    /\ [](\A id \in AbsentIds : removeSession(sessions, id) = sessions)
    /\ [][ RemoveSession => state' = state ]_vars

\* a log of one entry half a second old, and removals of ids it does not carry
C23_Witness ==
    /\ Len(sessions) = 1 /\ sessions[1].id = Now - HalfStep
    /\ Now \in AbsentIds /\ NoSuchId \in AbsentIds
    /\ removeSession(sessions, Now) = sessions

\* C24: append puts the new entry at the front of the log and keeps the
\* existing entries after it in their previous order, so the log is ordered
\* most-recent-first by logging order.
C24_PrependKeepsOrder ==
    /\ [](\A i, j \in 1..Len(sessions) : i < j => sessions[i].id >= sessions[j].id)
    /\ [][ LogWithPreconditions =>
             ( /\ Head(sessions').id = Now /\ Head(sessions').duration = state.time
               /\ Tail(sessions') = sessions ) ]_vars

\* a log of two entries of different sessions, the later one in front
C24_Witness ==
    /\ Len(sessions) = 2
    /\ sessions[1].id > sessions[2].id
    /\ sessions[1].startTime > sessions[2].startTime

\* the display format an entry was logged in: formatTimeForLog gives three
\* fields in hms and two in ms
LoggedFormat(session) == IF Len(session.formattedDuration) = 3 THEN "hms" ELSE "ms"

\* the logged duration of an entry in seconds
LoggedSeconds(session) == Seconds(session.duration, LoggedFormat(session))

\* C25: the aggregate total shown by the history and statistics views equals
\* the sum, in seconds, of the logged durations of all entries, whichever
\* display format each entry was logged in (0 for an empty log).
C25_TotalIsSumOfSeconds ==
    LET seconds == [i \in 1..Len(sessions) |-> LoggedSeconds(sessions[i])]
    IN /\ historyTotal(sessions) = reduce(seconds, 0)
       /\ totalTime(sessions) = reduce(seconds, 0)

\* C26: STOPWATCH_MS_MAX is the centisecond value of 59:59.99, that is
\* 59*6000 + 59*100 + 99 = 359999, and TIMER_MAX and STOPWATCH_HMS_MAX are the
\* second value of 99:59:59, that is 359999.
C26_LimitsAreDisplayMaxima ==
    /\ (state.mode = "stopwatch" /\ state.displayFormat = "ms")
          => (getMaxTime(state) = 59 * 6000 + 59 * 100 + 99 /\ getMaxTime(state) = 359999)
    /\ (state.mode = "stopwatch" /\ state.displayFormat = "hms")
          => getMaxTime(state) = 359999
    /\ state.mode = "timer" => getMaxTime(state) = 359999

\* C27: the formattedDuration of a logged entry denotes the same time fields
\* as the display renderer gives for the logged time in the display format
\* current at log time.
C27_LoggedFormatIsDisplayFormat ==
    [][ LogWithPreconditions =>
          Head(sessions').formattedDuration = formatTimeForDisplay(state, state.time) ]_vars

\* C28: in every reachable state with mode = clock, running = false,
\* paused = false and startTime is null.
C28_ClockIsStopped ==
    state.mode = "clock" => (~state.running /\ ~state.paused /\ state.startTime = Null)

\* C29: in every reachable state where the engine is stopped, pausedAccum is 0.
C29_StoppedHasNothingBanked ==
    Stopped(state) => state.pausedAccum = 0

\* C30: whenever a logSession command in Stopwatch mode changes a non-zero time
\* to 0, an entry carrying that time has been appended to the log.
C30_LogNeverDiscards ==
    [][ (Log /\ state.mode = "stopwatch" /\ state.time > 0 /\ state'.time = 0) =>
          ( /\ Len(sessions') = Len(sessions) + 1
            /\ Head(sessions').duration = state.time ) ]_vars

\* C31: in every reachable state with mode = timer and paused = true, time
\* equals max(0, timerSet - pausedAccum), also after incrementField is applied
\* while paused.
C31_PausedTimerShowsRemaining ==
    (state.mode = "timer" /\ state.paused) =>
        state.time = (IF state.timerSet - state.pausedAccum > 0
                      THEN state.timerSet - state.pausedAccum ELSE 0)

\* a step in which wall-clock time passes or an animation frame runs
TimePassesOrTick == Advance \/ LongRun \/ StopwatchTick \/ TimerTick

\* time, pausedAccum, timerSet, mode and startTime are the same after the step
EngineHeld ==
    /\ state'.time = state.time /\ state'.pausedAccum = state.pausedAccum
    /\ state'.timerSet = state.timerSet /\ state'.mode = state.mode
    /\ state'.startTime = state.startTime

\* C32: while running is false (stopped, paused or expired), the passage of
\* wall-clock time, the flash timeout it brings included, and any tick leave
\* time, pausedAccum, timerSet, mode and startTime unchanged, and no animation
\* frame of either effect is pending.
C32_HeldWhileNotRunningOrExpired ==
    /\ [](~state.running => ~ENABLED (StopwatchTick \/ TimerTick))
    /\ [][ (~state.running /\ (TimePassesOrTick \/ FlashExpire)) => EngineHeld ]_vars

\* C32 as amended: as above for the time that passes up to the end of the
\* flash window; the timeout that ends the window is not held back.
C32_HeldWhileNotRunning ==
    /\ [](~state.running => ~ENABLED (StopwatchTick \/ TimerTick))
    /\ [][ (~state.running /\ TimePassesOrTick) => EngineHeld ]_vars

\* a stopwatch in ms format paused after half a second, half a second later
C32_Witness ==
    /\ state.mode = "stopwatch" /\ state.displayFormat = "ms"
    /\ state.paused /\ ~state.running /\ state.startTime = Null
    /\ state.time = 50 /\ state.pausedAccum = 50
    /\ sessionStart = Date(Now - 2 * HalfStep)

\* C33: startOrToggle issued in Timer mode with timerSet = 0 leaves every
\* field of the engine state unchanged; issued in Timer mode while stopped with
\* timerSet > 0 it yields running = true, paused = false, pausedAccum = 0,
\* time = timerSet and startTime = now.
C33_TimerStart ==
    /\ []((state.mode = "timer" /\ state.timerSet = 0)
             => Commit(state, handleStartStop(state)) = state)
    /\ [][ StartStop =>
             ( /\ (state.mode = "timer" /\ state.timerSet = 0) => state' = state
               /\ (state.mode = "timer" /\ Stopped(state) /\ state.timerSet > 0) =>
                     ( /\ state'.running /\ ~state'.paused /\ state'.pausedAccum = 0
                       /\ state'.time = state.timerSet
                       /\ state'.startTime = Date(Now) ) ) ]_vars

\* a countdown started again in the flash window of its own expiry
C33_Witness ==
    /\ state.mode = "timer" /\ state.running /\ ~state.paused /\ state.flash
    /\ state.timerSet = 1 /\ state.time = 1 /\ state.pausedAccum = 0
    /\ state.startTime = Date(Now)

\* C34: a tick or a pause that reads a wall-clock value earlier than startTime
\* treats the negative difference as 0: the stopwatch's time does not drop
\* below pausedAccum, a pause does not decrease pausedAccum, and time and
\* pausedAccum are never negative.
C34_NegativeDeltaClamped ==
    /\ [](state.time >= 0 /\ state.pausedAccum >= 0)
    /\ [][ /\ StopwatchTick => state'.time >= state.pausedAccum
           /\ (StartStop /\ state.running) => state'.pausedAccum >= state.pausedAccum
         ]_vars

\* C35: once every input held on the H, M and S buttons has been released
\* (mouseup or mouseleave) no press-and-hold interval remains active, so that
\* timerSet grows only by a click or by an interval of a press still held.
C35_ReleaseClearsIntervals ==
    /\ [](inputsDown = 0 => intervals = {})
    /\ [][ state'.timerSet > state.timerSet
             => (Increment \/ (IntervalFire /\ inputsDown > 0)) ]_vars

\* C36: the timer never expires early: flash becomes true only when the
\* wall-clock time spent running since the fresh start, summed over all run
\* segments, is at least timerSet seconds, whatever pauses, resumes and
\* increments while paused came in between.
C36_NeverExpiresEarly ==
    [][ (~state.flash /\ state'.flash) => ranMs >= state.timerSet * 1000 ]_vars

\* a countdown of 2 s expired after 2.5 s of running: a pause half a second
\* into it cost it the fraction
C36_Witness ==
    /\ Expired(state) /\ state.mode = "timer" /\ state.timerSet = 2
    /\ ranMs = 2 * 1000 + HalfStep
    /\ stopFlashTimeout = Date(Now + FLASH_TIMEOUT)

\* C37: in the tick-counting Timer a click on the H, M or S button never
\* changes timerSet while running is true.
C37_ClickKeepsTimerSetWhileRunning ==
    [][ (Timer_Click /\ tickState.running) => tickState'.timerSet = tickState.timerSet ]_vars

\* C38: in Stopwatch mode of the tick-counting Timer, toggling the display
\* format twice returns time to its original value from either starting
\* format, and a single toggle yields a time that does not exceed the maximum
\* of the new format.
C38_ToggleRoundTrip ==
    tickState.mode = "stopwatch" =>
        /\ Timer_handleFormatToggle(Timer_handleFormatToggle(tickState)).time = tickState.time
        /\ Timer_handleFormatToggle(tickState).time
              <= Timer_getMaxTime(Timer_handleFormatToggle(tickState))

====
